---- MODULE Spec2Model ----
(***************************************************************************)
(* Model of the miraibay command-line client                               *)
(* (miraibay_cli/commands/auction.py): the two typer commands `bid` and    *)
(* `create`.  One behaviour of the model is one invocation of the tool:    *)
(* the command line is parsed, the handler runs statement by statement,    *)
(* and the process ends (normally, by typer.Exit, by click's Abort, or by  *)
(* an uncaught exception: of a print of the summary, or of handle_result). *)
(*                                                                         *)
(* The transaction builder (SuiTransaction) is modelled as the ordered     *)
(* list of the calls the handler makes on it; a value returned by a call   *)
(* is a reference Result(op, idx) to the idx-th result of the op-th call.  *)
(* The timestamps are Python ints of any size: they are held as sign and   *)
(* magnitude in limbs of 10^9, so that the values at and beyond the range  *)
(* of datetime are inputs of the model.  A text that rich prints comes     *)
(* with the verdict of rich's markup parser on it, as part of the input.   *)
(***************************************************************************)
EXTENDS Integers, Sequences, FiniteSets

\* ---------------------------------------------------------------- bounds
MaxNeg    == 1      \* inputs go down to -MaxNeg
MaxTs     == 2      \* small --start-ts / --end-ts values go up to MaxTs
MaxPrice  == 1      \* the three price options go up to MaxPrice
MaxAmount == 2      \* bid amount goes up to MaxAmount
MaxNow    == 3      \* wall-clock readings (ms) are 1..MaxNow

\* ------------------------------------------------------ program constants
PACKAGE_ID == "0x34d656894723daac48f3f825ae3b35c428e7b4cb5c65b08bb33349475a1e23ac"
GAS_BUDGET == 1000000000
MIST_PER_SUI == 1000000000
CLOCK_OBJECT == "0x6"
active_address == "config.active_address"
ExitMessage == "Start timestamp must be before end timestamp."

\* ------------------------------------------------- Python ints (timestamps)
\* A timestamp is [neg, mag]: mag is the magnitude in limbs of Base, most
\* significant first, without leading zero limbs; zero has no limb.
Base == 1000000000
Zero == [neg |-> FALSE, mag |-> <<>>]
PyInt(n) == IF n = 0 THEN Zero ELSE [neg |-> n < 0, mag |-> <<IF n < 0 THEN 0 - n ELSE n>>]

MagLess(a, b) ==
    \/ Len(a) < Len(b)
    \/ /\ Len(a) = Len(b)
       /\ \E i \in 1..Len(a) : a[i] < b[i] /\ \A j \in 1..(i - 1) : a[j] = b[j]
\* x < y, x > y and x <= y on Python ints
IntLess(x, y) ==
    IF x.neg # y.neg THEN x.neg
    ELSE IF x.neg THEN MagLess(y.mag, x.mag) ELSE MagLess(x.mag, y.mag)
IntGreater(x, y) == IntLess(y, x)
IntLeq(x, y) == ~IntLess(y, x)

\* datetime.fromtimestamp(ts / 1000, UTC) returns for the milliseconds of
\* 0001-01-01T00:00:00 (-62135596800000) up to those of
\* 9999-12-31T23:59:59.999 (253402300799999) and raises outside of them
\* (ValueError, OSError or OverflowError, by magnitude).
DateMin == [neg |-> TRUE, mag |-> <<62135, 596800000>>]
DateMax == [neg |-> FALSE, mag |-> <<253402, 300799999>>]
FromTimestampReturns(ts) == IntLeq(DateMin, ts) /\ IntLeq(ts, DateMax)

\* ------------------------------------------------------------ rich markup
\* print is rich's print: it reads its text as console markup and raises
\* MarkupError on some texts (a closing tag that closes nothing, a handler
\* tag whose parameters do not parse).  The parser belongs to the library;
\* a text of the command line is given together with its verdict:
\* [text |-> the characters, raises |-> whether printing it raises].
Text(chars, raises) == [text |-> chars, raises |-> raises]
\* print(f"...{t}") raises: the fixed part of the line holds no markup.
PrintRaises(t) == t.raises

\* --------------------------------------------------------- input domains
\* Python None for --description is the empty tuple; a supplied text s is <<s>>.
None == <<>>
AuctionIds   == {"0xa1", "0xa2"}
Amounts      == (0 - MaxNeg)..MaxAmount
\* texts without markup, with a matched pair of tags, with an escaped tag
\* (all printed), and with a closing tag that closes nothing (raises)
PlainName    == Text("PM", FALSE)
TaggedName   == Text("[x]P[/x]", FALSE)
UnopenedTag  == Text("x[/y]", TRUE)
EscapedTag   == Text("\\[/y]", FALSE)
EmptyText    == Text("", FALSE)
Names        == {PlainName, TaggedName, UnopenedTag}
Descriptions == {None, <<EmptyText>>, <<EscapedTag>>, <<UnopenedTag>>}
\* small values, the first and the last formattable millisecond, the first
\* of year 10000, the last of year 0, and 10^30
YearTenThousand == [neg |-> FALSE, mag |-> <<253402, 300800000>>]
YearZero        == [neg |-> TRUE, mag |-> <<62135, 596800001>>]
Huge            == [neg |-> FALSE, mag |-> <<1000, 0, 0, 0>>]
Timestamps   == {PyInt(n) : n \in (0 - MaxNeg)..MaxTs} \cup {DateMin, DateMax, YearTenThousand, YearZero, Huge}
Prices       == (0 - MaxNeg)..MaxPrice
ClockValues  == {PyInt(n) : n \in 1..MaxNow}
Answers      == {"y", "n", "eof"}
Results      == {"ok", "err"}

\* ------------------------------------------------------------ SDK values
SuiString(s) == [type |-> "SuiString", value |-> s]
SuiU64(n)    == [type |-> "SuiU64", value |-> n]
ObjectID(s)  == [type |-> "ObjectID", value |-> s]
Result(op, idx) == [type |-> "Result", value |-> <<op, idx>>]
Gas == [type |-> "Gas", value |-> <<>>]

\* Python truthiness of the description option: None and "" are both falsy.
Truthy(description) == description # None /\ description[1].text # ""

SplitCoinOp(coin, amounts) ==
    [kind |-> "split_coin", coin |-> coin, amounts |-> amounts]
MoveCallOp(target, arguments, type_arguments) ==
    [kind |-> "move_call", target |-> target, arguments |-> arguments,
     type_arguments |-> type_arguments]
TransferObjectsOp(transfers, recipient) ==
    [kind |-> "transfer_objects", transfers |-> transfers, recipient |-> recipient]

BidTarget    == PACKAGE_ID \o "::auction::bid"
NewTarget    == PACKAGE_ID \o "::auction::new"
AuctionType  == PACKAGE_ID \o "::auction::Auction"
SomeTarget   == "0x1::option::some"
NoneTarget   == "0x1::option::none"
ShareTarget  == "0x2::transfer::public_share_object"
StringType   == "0x1::string::String"

\* ------------------------------------------------------------------ state
VARIABLES
    pc,        \* position of the running handler
    argv,      \* the parsed command line (never changes once parsed)
    start_ts,  \* create's local start_ts (reassigned at line 60)
    clock,     \* the wall-clock reading taken at line 60 (Zero: not read)
    out,       \* what has been printed on stdout, in order
    err,       \* the argument of typer.Exit ("" if none)
    answer,    \* the user's reply to typer.confirm ("none" before the prompt)
    txer,      \* the calls made on the SuiTransaction, in order
    built,     \* TRUE once SuiTransaction(...) has been constructed
    submits,   \* number of txer.execute calls
    budget,    \* gas_budget of the last execute call (0 if none)
    result     \* outcome of the execute call ("none" before it)

vars == <<pc, argv, start_ts, clock, out, err, answer, txer, built, submits,
          budget, result>>

Init ==
    /\ pc = "idle"
    /\ argv = [cmd |-> "none"]
    /\ start_ts = Zero
    /\ clock = Zero
    /\ out = <<>>
    /\ err = ""
    /\ answer = "none"
    /\ txer = <<>>
    /\ built = FALSE
    /\ submits = 0
    /\ budget = 0
    /\ result = "none"

\* ------------------------------------------------------------------- bid
\* `mbay auction bid <auction_id> <amount>`: typer parses the two positional
\* arguments (a str and an int, no range restriction) and calls bid.
InvokeBid(auction_id, amount) ==
    /\ pc = "idle"
    /\ argv' = [cmd |-> "bid", auction_id |-> auction_id, amount |-> amount]
    /\ pc' = "bid_txer"
    /\ UNCHANGED <<start_ts, clock, out, err, answer, txer, built, submits, budget, result>>

\* txer = SuiTransaction(client=client, ...): an empty builder.
NewTransaction(at, next) ==
    /\ pc = at
    /\ built' = TRUE
    /\ txer' = <<>>
    /\ pc' = next
    /\ UNCHANGED <<argv, start_ts, clock, out, err, answer, submits, budget, result>>

BidNewTransaction == NewTransaction("bid_txer", "bid_split")

\* payment = txer.split_coin(coin=txer.gas, amounts=[amount])
BidSplitCoin ==
    /\ pc = "bid_split"
    /\ txer' = Append(txer, SplitCoinOp(Gas, <<argv.amount>>))
    /\ pc' = "bid_call"
    /\ UNCHANGED <<argv, start_ts, clock, out, err, answer, built, submits, budget, result>>

\* A variant that passes the payment before the auction identifier.
BidMoveCall_ArgOrder ==
    /\ pc = "bid_call"
    /\ txer' = Append(txer,
                 MoveCallOp(BidTarget,
                            <<Result(Len(txer), 0),
                              ObjectID(argv.auction_id),
                              ObjectID(CLOCK_OBJECT)>>,
                            <<>>))
    /\ pc' = "bid_execute"
    /\ UNCHANGED <<argv, start_ts, clock, out, err, answer, built, submits, budget, result>>

\* txer.move_call(target=...::auction::bid, arguments=[id, payment, 0x6])
\* payment is the result of the split_coin call made just before.
BidMoveCall ==
    /\ pc = "bid_call"
    /\ txer' = Append(txer,
                 MoveCallOp(BidTarget,
                            <<ObjectID(argv.auction_id),
                              Result(Len(txer), 0),
                              ObjectID(CLOCK_OBJECT)>>,
                            <<>>))
    /\ pc' = "bid_execute"
    /\ UNCHANGED <<argv, start_ts, clock, out, err, answer, built, submits, budget, result>>

\* A variant of the submission step that tries again after a failure.
Execute_Retry(at, next, res) ==
    /\ pc = at
    /\ submits' = submits + 1
    /\ budget' = GAS_BUDGET
    /\ result' = res
    /\ pc' = IF res = "ok" THEN next ELSE IF submits < 2 THEN at ELSE "raised"
    /\ UNCHANGED <<argv, start_ts, clock, out, err, answer, txer, built>>

\* result = handle_result(txer.execute(gas_budget=1_000_000_000)):
\* one submission; handle_result returns the data of a successful result and
\* raises on a failed one, which ends the process.
Execute(at, next, res) ==
    /\ pc = at
    /\ submits' = submits + 1
    /\ budget' = GAS_BUDGET
    /\ result' = res
    /\ pc' = IF res = "ok" THEN next ELSE "raised"
    /\ UNCHANGED <<argv, start_ts, clock, out, err, answer, txer, built>>

BidExecute(res) == Execute("bid_execute", "bid_show", res)

\* print(result); return
ShowResult(at) ==
    /\ pc = at
    /\ out' = Append(out, [text |-> "result", value |-> <<result>>])
    /\ pc' = "done"
    /\ UNCHANGED <<argv, start_ts, clock, err, answer, txer, built, submits, budget, result>>

BidShowResult == ShowResult("bid_show")

\* ---------------------------------------------------------------- create
\* `mbay auction create <name> [--description TEXT] --start-ts INT
\* --end-ts INT [--reserve-price INT] [--starting-price INT]
\* [--min-bid-increment INT]`: typer parses the options (plain ints, no range
\* restriction; description defaults to None) and calls create.
InvokeCreate(name, description, start, end_ts, reserve_price, starting_price, min_bid_increment) ==
    /\ pc = "idle"
    /\ argv' = [cmd |-> "create", name |-> name, description |-> description,
                start_ts |-> start, end_ts |-> end_ts,
                reserve_price |-> reserve_price,
                starting_price |-> starting_price,
                min_bid_increment |-> min_bid_increment]
    /\ start_ts' = start
    /\ pc' = "create_default"
    /\ UNCHANGED <<clock, out, err, answer, txer, built, submits, budget, result>>

\* A variant that reads the clock and leaves the zero start_ts in place.
CreateDefaultStart_KeepZero(now) ==
    /\ pc = "create_default"
    /\ IF start_ts = Zero
         THEN /\ clock' = now
              /\ UNCHANGED start_ts
         ELSE UNCHANGED <<clock, start_ts>>
    /\ pc' = "create_check"
    /\ UNCHANGED <<argv, out, err, answer, txer, built, submits, budget, result>>

\* if start_ts == 0: start_ts = int(datetime.now(UTC).timestamp() * 1000)
\* now is the wall-clock reading in milliseconds since the epoch.
CreateDefaultStart(now) ==
    /\ pc = "create_default"
    /\ IF start_ts = Zero
         THEN /\ clock' = now
              /\ start_ts' = now
         ELSE UNCHANGED <<clock, start_ts>>
    /\ pc' = "create_check"
    /\ UNCHANGED <<argv, out, err, answer, txer, built, submits, budget, result>>

\* A variant whose ordering check never fires.
CreateCheck_NoCheck ==
    /\ pc = "create_check"
    /\ pc' = "create_summary"
    /\ UNCHANGED <<argv, start_ts, clock, out, err, answer, txer, built, submits, budget, result>>

\* if start_ts > end_ts: raise typer.Exit("Start timestamp must be ...")
\* The exception ends the command; the runner passes its argument to
\* sys.exit, which writes the message to stderr and exits non-zero.
CreateCheck ==
    /\ pc = "create_check"
    /\ IF IntGreater(start_ts, argv.end_ts)
         THEN /\ err' = ExitMessage
              /\ pc' = "exit_error"
         ELSE /\ pc' = "create_summary"
              /\ UNCHANGED err
    /\ UNCHANGED <<argv, start_ts, clock, out, answer, txer, built, submits, budget, result>>

\* The five print calls of the summary.  A timestamp line carries the
\* millisecond value it shows (and from which its ISO-8601 form is derived);
\* the reserve price line carries Decimal(reserve_price) / 1_000_000_000 as
\* the pair <<numerator, denominator>>.
Summary ==
    << [text |-> "Name", value |-> <<argv.name.text>>],
       [text |-> "Description",
        value |-> IF argv.description = None THEN <<>> ELSE <<argv.description[1].text>>],
       [text |-> "Start timestamp", value |-> <<start_ts>>],
       [text |-> "End timestamp", value |-> <<argv.end_ts>>],
       [text |-> "Reserve price", value |-> <<argv.reserve_price, MIST_PER_SUI>>] >>

\* The number of print calls of the summary that complete: the line of
\* the name or of the description raises MarkupError on an unopened closing
\* tag, a timestamp line raises when fromtimestamp does; print(None) and the
\* reserve price line never raise.
SummaryPrinted ==
    IF PrintRaises(argv.name) THEN 0
    ELSE IF argv.description # None /\ PrintRaises(argv.description[1]) THEN 1
    ELSE IF ~FromTimestampReturns(start_ts) THEN 2
    ELSE IF ~FromTimestampReturns(argv.end_ts) THEN 3
    ELSE 5

\* Lines 64-68: the prints run in order; the first one that raises ends the
\* command with an uncaught exception, the lines before it already printed.
CreateSummary ==
    /\ pc = "create_summary"
    /\ out' = out \o SubSeq(Summary, 1, SummaryPrinted)
    /\ pc' = IF SummaryPrinted = 5 THEN "create_confirm" ELSE "raised"
    /\ UNCHANGED <<argv, start_ts, clock, err, answer, txer, built, submits, budget, result>>

\* typer.confirm("Please confirm the auction details:") with its defaults
\* (abort=False): it returns True for "y" and False for "n"; the handler
\* discards the returned value.  End of input on the prompt raises Abort.
CreateConfirm(ans) ==
    /\ pc = "create_confirm"
    /\ answer' = ans
    /\ pc' = IF ans = "eof" THEN "aborted" ELSE "create_txer"
    /\ UNCHANGED <<argv, start_ts, clock, out, err, txer, built, submits, budget, result>>

CreateNewTransaction == NewTransaction("create_txer", "create_option")

\* description_opt = txer.move_call(option::some / option::none ...)
CreateOption ==
    /\ pc = "create_option"
    /\ txer' = Append(txer,
                 MoveCallOp(IF Truthy(argv.description) THEN SomeTarget ELSE NoneTarget,
                            IF Truthy(argv.description)
                              THEN <<SuiString(argv.description[1].text)>>
                              ELSE <<>>,
                            <<StringType>>))
    /\ pc' = "create_new"
    /\ UNCHANGED <<argv, start_ts, clock, out, err, answer, built, submits, budget, result>>

\* auction, auction_manager_cap = txer.move_call(...::auction::new ...)
\* description_opt is the result of the call made just before.
CreateNew ==
    /\ pc = "create_new"
    /\ txer' = Append(txer,
                 MoveCallOp(NewTarget,
                            <<SuiString(argv.name.text),
                              Result(Len(txer), 0),
                              SuiU64(start_ts),
                              SuiU64(argv.end_ts),
                              SuiU64(argv.reserve_price),
                              SuiU64(argv.starting_price),
                              SuiU64(argv.min_bid_increment)>>,
                            <<>>))
    /\ pc' = "create_share"
    /\ UNCHANGED <<argv, start_ts, clock, out, err, answer, built, submits, budget, result>>

\* txer.move_call(public_share_object, arguments=[auction])
\* auction is the first result of the auction::new call made just before.
CreateShare ==
    /\ pc = "create_share"
    /\ txer' = Append(txer,
                 MoveCallOp(ShareTarget, <<Result(Len(txer), 0)>>, <<AuctionType>>))
    /\ pc' = "create_transfer"
    /\ UNCHANGED <<argv, start_ts, clock, out, err, answer, built, submits, budget, result>>

\* A variant that hands over the auction object instead of the capability.
CreateTransfer_Auction ==
    /\ pc = "create_transfer"
    /\ txer' = Append(txer,
                 TransferObjectsOp(<<Result(Len(txer) - 1, 0)>>, active_address))
    /\ pc' = "create_execute"
    /\ UNCHANGED <<argv, start_ts, clock, out, err, answer, built, submits, budget, result>>

\* txer.transfer_objects(transfers=[auction_manager_cap], recipient=active)
\* auction_manager_cap is the second result of the auction::new call, which
\* is the call before the share call.
CreateTransfer ==
    /\ pc = "create_transfer"
    /\ txer' = Append(txer,
                 TransferObjectsOp(<<Result(Len(txer) - 1, 1)>>, active_address))
    /\ pc' = "create_execute"
    /\ UNCHANGED <<argv, start_ts, clock, out, err, answer, built, submits, budget, result>>

CreateExecute(res) == Execute("create_execute", "create_show", res)

CreateShowResult == ShowResult("create_show")

Next ==
    \/ pc = "idle" /\ \E a \in AuctionIds, m \in Amounts : InvokeBid(a, m)
    \/ BidNewTransaction
    \/ BidSplitCoin
    \/ BidMoveCall
    \/ \E res \in Results : BidExecute(res)
    \/ BidShowResult
    \/ pc = "idle" /\
          \E n \in Names, d \in Descriptions, s \in Timestamps, e \in Timestamps,
             rp \in Prices, sp \in Prices, mi \in Prices :
             InvokeCreate(n, d, s, e, rp, sp, mi)
    \/ \E now \in ClockValues : CreateDefaultStart(now)
    \/ CreateCheck
    \/ CreateSummary
    \/ \E ans \in Answers : CreateConfirm(ans)
    \/ CreateNewTransaction
    \/ CreateOption
    \/ CreateNew
    \/ CreateShare
    \/ CreateTransfer
    \/ \E res \in Results : CreateExecute(res)
    \/ CreateShowResult

Spec == Init /\ [][Next]_vars

TypeOK ==
    /\ pc \in {"idle", "bid_txer", "bid_split", "bid_call", "bid_execute",
               "bid_show", "create_default", "create_check", "create_summary",
               "create_confirm", "create_txer", "create_option", "create_new",
               "create_share", "create_transfer", "create_execute",
               "create_show", "done", "exit_error", "aborted", "raised"}
    /\ argv.cmd \in {"none", "bid", "create"}
    /\ submits \in 0..3
    /\ answer \in Answers \cup {"none"}
    /\ result \in Results \cup {"none"}

\* ------------------------------------------------------------ properties
IsNewCall(op) == op.kind = "move_call" /\ op.target = NewTarget
HasShownResult == \E i \in 1..Len(out) : out[i].text = "result"
Submitted == submits >= 1
\* Every Result reference of the i-th call names an earlier call.
RefsOf(op) ==
    IF op.kind = "move_call"
      THEN {op.arguments[k].value[1] :
              k \in {j \in 1..Len(op.arguments) : op.arguments[j].type = "Result"}}
      ELSE IF op.kind = "transfer_objects"
        THEN {op.transfers[k].value[1] : k \in 1..Len(op.transfers)}
        ELSE {}
OnlyEarlierResults == \A i \in 1..Len(txer) : \A r \in RefsOf(txer[i]) : r >= 1 /\ r < i

\* The create invocations whose timestamps and prices are all unsigned.
UnsignedCreate ==
    /\ argv.cmd = "create"
    /\ ~argv.start_ts.neg /\ ~argv.end_ts.neg
    /\ argv.reserve_price >= 0 /\ argv.starting_price >= 0
    /\ argv.min_bid_increment >= 0

\* C1: in create, a "no" answer to the confirmation prompt means that no
\* transaction is built and execute is never reached (stated here for the
\* invocations with unsigned timestamps and prices).
C1_DeclineNoSubmit ==
    (UnsignedCreate /\ answer = "n") =>
        (~built /\ txer = <<>> /\ submits = 0)

\* C2: a create invocation whose start_ts is greater than end_ts ends with
\* the error message, with nothing printed, no prompt shown, no transaction
\* built and nothing submitted.
C2_RejectsStartAfterEnd ==
    (argv.cmd = "create" /\ IntGreater(argv.start_ts, argv.end_ts)) =>
        /\ pc \in {"create_default", "create_check", "exit_error"}
        /\ (pc = "exit_error" => err = ExitMessage)
        /\ out = <<>>
        /\ answer = "none"
        /\ ~built /\ txer = <<>>
        /\ submits = 0

C2_Witness ==
    /\ argv.cmd = "create"
    /\ IntGreater(argv.start_ts, argv.end_ts)
    /\ argv.start_ts # Zero
    /\ pc = "exit_error"
    /\ err = ExitMessage

\* C3: with start_ts == 0 the effective start timestamp is the clock reading
\* in milliseconds, the ordering check is applied to that value, and every
\* auction-creation call carries an effective start that is <= end_ts; a
\* zero start_ts with an end_ts in the past is rejected.
C3_ZeroStartIsClockAndChecked ==
    argv.cmd = "create" =>
        /\ (argv.start_ts = Zero /\ pc # "create_default") =>
               (clock \in ClockValues /\ start_ts = clock)
        /\ (argv.start_ts = Zero /\ clock \in ClockValues /\ IntGreater(clock, argv.end_ts)) =>
               (pc \in {"create_check", "exit_error"} /\ ~built /\ submits = 0)
        /\ \A i \in 1..Len(txer) :
               IsNewCall(txer[i]) =>
                   /\ txer[i].arguments[3] = SuiU64(start_ts)
                   /\ IntLeq(txer[i].arguments[3].value, txer[i].arguments[4].value)

C3_Witness ==
    /\ argv.cmd = "create"
    /\ argv.start_ts = Zero
    /\ Submitted
    /\ \E i \in 1..Len(txer) :
           IsNewCall(txer[i]) /\ txer[i].arguments[3].value = clock

\* C4: an absent description gives the option "none" call with no arguments;
\* every present description, the empty string included, gives the option
\* "some" call whose single argument is that text (stated here for the
\* invocations with unsigned timestamps and prices).
C4_DescriptionOption ==
    (UnsignedCreate /\ Len(txer) >= 1) =>
        IF argv.description = None
          THEN txer[1].target = NoneTarget /\ txer[1].arguments = <<>>
          ELSE /\ txer[1].target = SomeTarget
               /\ txer[1].arguments = <<SuiString(argv.description[1].text)>>

\* C5: for a bid with amount > 0 the submitted transaction is exactly one
\* split of that amount off the gas coin followed by one call of the bid
\* entry point with the auction id, the split payment and the clock 0x6.
C5_BidTransaction ==
    (argv.cmd = "bid" /\ argv.amount > 0 /\ Submitted) =>
        txer = << SplitCoinOp(Gas, <<argv.amount>>),
                  MoveCallOp(BidTarget,
                             <<ObjectID(argv.auction_id), Result(1, 0),
                               ObjectID("0x6")>>,
                             <<>>) >>

C5_Witness ==
    /\ argv.cmd = "bid"
    /\ argv.amount > 0
    /\ Submitted
    /\ result = "ok"
    /\ Len(txer) = 2

\* C6: a validated and confirmed create submits exactly four operations in
\* order: the description option, the auction-creation call consuming it with
\* name, start, end and the three prices, the public share of the created
\* auction, and the transfer of the created capability to the active
\* address; each operation references only earlier results.
C6_CreateTransaction ==
    (argv.cmd = "create" /\ Submitted) =>
        /\ Len(txer) = 4
        /\ txer[1].kind = "move_call"
        /\ txer[1].target \in {SomeTarget, NoneTarget}
        /\ txer[1].type_arguments = <<StringType>>
        /\ txer[2] = MoveCallOp(NewTarget,
                                <<SuiString(argv.name.text), Result(1, 0),
                                  SuiU64(start_ts), SuiU64(argv.end_ts),
                                  SuiU64(argv.reserve_price),
                                  SuiU64(argv.starting_price),
                                  SuiU64(argv.min_bid_increment)>>,
                                <<>>)
        /\ txer[3] = MoveCallOp(ShareTarget, <<Result(2, 0)>>, <<AuctionType>>)
        /\ txer[4] = TransferObjectsOp(<<Result(2, 1)>>, active_address)
        /\ OnlyEarlierResults

C6_Witness ==
    /\ argv.cmd = "create"
    /\ answer = "y"
    /\ Submitted
    /\ Len(txer) = 4

\* C7: a bid with amount <= 0 is rejected locally: no coin split, no
\* entry-point call and no submission take place.
C7_BidRequiresPositiveAmount ==
    (argv.cmd = "bid" /\ argv.amount <= 0) =>
        (txer = <<>> /\ submits = 0)

\* C8: whenever create reaches the auction-creation call, the start and end
\* timestamps and the three prices passed to it are all >= 0.
C8_UnsignedArguments ==
    argv.cmd = "create" =>
        \A i \in 1..Len(txer) :
            IsNewCall(txer[i]) =>
                /\ \A k \in 3..4 : ~txer[i].arguments[k].value.neg
                /\ \A k \in 5..7 : txer[i].arguments[k].value >= 0

\* C9: an invocation submits at most once, only after every operation has
\* been added and before the result is printed; a failed submission ends the
\* run and is not followed by another attempt.
C9_SingleShot ==
    /\ submits <= 1
    /\ Submitted =>
           /\ built
           /\ Len(txer) = (IF argv.cmd = "bid" THEN 2 ELSE 4)
           /\ pc \in {"bid_show", "create_show", "done", "raised"}
    /\ HasShownResult => (submits = 1 /\ result = "ok")
    /\ result = "err" => (pc = "raised" /\ ~HasShownResult)
    /\ pc \in {"bid_show", "create_show", "done"} => result = "ok"

C9_Witness ==
    /\ submits = 1
    /\ result = "err"
    /\ pc = "raised"

EqualNonZeroTimestamps ==
    argv.cmd = "create" /\ argv.start_ts # Zero /\ argv.start_ts = argv.end_ts

BeforeSummary == pc \in {"create_default", "create_check", "create_summary"}

\* C10: the ordering check is non-strict: with a non-zero start_ts equal to
\* end_ts validation passes and the command goes on to the summary and the
\* confirmation prompt: once the summary step has run, the five lines are
\* printed and the prompt is shown (it is pending or has been answered).
C10_EqualTimestampsReachPrompt ==
    EqualNonZeroTimestamps =>
        /\ pc # "exit_error"
        /\ err = ""
        /\ ~BeforeSummary =>
               /\ Len(out) >= 5 /\ SubSeq(out, 1, 5) = Summary
               /\ pc = "create_confirm" \/ answer # "none"
====
